---- MODULE Spec2Model ----
(***************************************************************************)
(* A model of the lexer of lisp-rs (src/lexer.rs): the Tokenizer with its  *)
(* one-character lookahead, its read routines, and the tokenizer() loop    *)
(* that drains it into a Vec<Token>.                                       *)
(*                                                                         *)
(* A character is a one-character string; a text is a sequence of          *)
(* characters.  Option<char>::None is the string None.  A panic (a failed  *)
(* unwrap) is an outcome of its own, next to Some(token) and None.         *)
(***************************************************************************)
EXTENDS Integers, Sequences, FiniteSets, TLC

VARIABLES text, input, current_character, tokens, spans, ret, pc, extra

vars == <<text, input, current_character, tokens, spans, ret, pc, extra>>

(***************************************************************************)
(* Bounds of the model.                                                    *)
(***************************************************************************)
\* longest input text enumerated over Alphabet
MaxLen == 4
\* longest digit run of the operands a and b in "(op a b)"
MaxDigits == 2
\* longest whitespace run inserted at a token boundary
MaxRun == 2
\* calls of next_token made after it has returned None
MaxExtraCalls == 2
\* longest input text enumerated over Alphabet where termination is checked
MaxFairLen == 2

(***************************************************************************)
(* Character classes (char::is_whitespace, char::is_numeric,               *)
(* char::is_alphabetic of the Rust standard library, restricted to the     *)
(* characters the model uses).  The character U+00B2 SUPERSCRIPT TWO,      *)
(* written by its name, is numeric (category No) and no ASCII digit.       *)
(***************************************************************************)
None == "None"

Digits == {"0", "1", "2", "3", "4", "5", "6", "7", "8", "9"}

Letters == {"a", "b", "c", "d", "e", "f", "g", "h", "i", "j", "k", "l", "m",
            "n", "o", "p", "q", "r", "s", "t", "u", "v", "w", "x", "y", "z"}

is_whitespace(c) == c \in {" ", "\t", "\n", "\r"}

is_numeric(c) == c \in Digits \cup {"SUPERSCRIPT TWO"}

is_alphabetic(c) == c \in Letters

\* let keywords = ["define", "if"]
keywords == {<<"d", "e", "f", "i", "n", "e">>, <<"i", "f">>}

\* let binary_operators = ['+', '-', '*', '/']
binary_operators == {"+", "-", "*", "/"}

(***************************************************************************)
(* Tokens.  Every payload is a text: the name of a Symbol, Keyword or      *)
(* BinaryOp, the contents of a String, the canonical decimal numeral of an *)
(* Integer or Float value (see parse_i64 and parse_f64).                   *)
(***************************************************************************)
Token(type, value) == [type |-> type, value |-> value]

LeftParenthesis == Token("LeftParenthesis", <<>>)

RightParenthesis == Token("RightParenthesis", <<>>)

Some(token) == [tag |-> "Some", token |-> token]

NoToken == [tag |-> "None", token |-> Token("", <<>>)]

Panic == [tag |-> "Panic", token |-> Token("", <<>>)]

(***************************************************************************)
(* The scanning state of a Tokenizer: the unread rest of the input (the    *)
(* Chars iterator) and the lookahead.                                      *)
(***************************************************************************)
State(inp, cur) == [input |-> inp, current_character |-> cur]

\* mutant: the Chars iterator kept is a fresh one: the first character is
\* the lookahead and is still in the input
new_rereads(inp) ==
    IF inp = <<>> THEN State(<<>>, None) ELSE State(inp, Head(inp))

\* Tokenizer::new: the lookahead is the first character, or None
new(inp) ==
    IF inp = <<>> THEN State(<<>>, None) ELSE State(Tail(inp), Head(inp))

\* Tokenizer::advance: the lookahead becomes the next character of input
advance(st) ==
    IF st.input = <<>>
    THEN State(<<>>, None)
    ELSE State(Tail(st.input), Head(st.input))

\* mutant: an if in place of the while: one whitespace character is skipped
eat_whitespace_once(st) ==
    IF st.current_character # None /\ is_whitespace(st.current_character)
    THEN advance(st)
    ELSE st

\* Tokenizer::eat_whitespace
RECURSIVE eat_whitespace(_)
eat_whitespace(st) ==
    IF st.current_character # None /\ is_whitespace(st.current_character)
    THEN eat_whitespace(advance(st))
    ELSE st

\* what a read routine returns, with the state it leaves
Read(st, out) == [st |-> st, out |-> out]

\* mutant: ')' is not a terminator of the symbol read
RECURSIVE read_symbol_loop_swallows_paren(_, _)
read_symbol_loop_swallows_paren(st, symbol) ==
    LET c == st.current_character IN
    IF c = None \/ is_whitespace(c) \/ c = "("
    THEN Read(st, symbol)
    ELSE read_symbol_loop_swallows_paren(advance(st), Append(symbol, c))

\* mutant: the symbol read stops at a digit as well
RECURSIVE read_symbol_loop_stops_at_digit(_, _)
read_symbol_loop_stops_at_digit(st, symbol) ==
    LET c == st.current_character IN
    IF c = None \/ is_whitespace(c) \/ c = "(" \/ c = ")" \/ is_numeric(c)
    THEN Read(st, symbol)
    ELSE read_symbol_loop_stops_at_digit(advance(st), Append(symbol, c))

\* Tokenizer::read_symbol, the while loop
RECURSIVE read_symbol_loop(_, _)
read_symbol_loop(st, symbol) ==
    LET c == st.current_character IN
    IF c = None \/ is_whitespace(c) \/ c = "(" \/ c = ")"
    THEN Read(st, symbol)
    ELSE read_symbol_loop(advance(st), Append(symbol, c))

read_symbol(st) == read_symbol_loop(st, <<>>)

RECURSIVE read_number_loop(_, _)
read_number_loop(st, number) ==
    LET c == st.current_character IN
    IF c = None \/ (~is_numeric(c) /\ c # ".")
    THEN Read(st, number)
    ELSE read_number_loop(advance(st), Append(number, c))

read_number(st) == read_number_loop(st, <<>>)

\* mutant: the closing quote is left as the lookahead
RECURSIVE read_string_loop_keeps_quote(_, _)
read_string_loop_keeps_quote(st, string) ==
    LET c == st.current_character IN
    IF c = None \/ c = "\""
    THEN Read(st, string)
    ELSE read_string_loop_keeps_quote(advance(st), Append(string, c))

\* mutant: what was accumulated is dropped when the input ends first
RECURSIVE read_string_loop_drops_unterminated(_, _)
read_string_loop_drops_unterminated(st, string) ==
    LET c == st.current_character IN
    IF c = None
    THEN Read(st, <<>>)
    ELSE IF c = "\""
         THEN Read(advance(st), string)
         ELSE read_string_loop_drops_unterminated(advance(st), Append(string, c))

\* Tokenizer::read_string, the while loop
RECURSIVE read_string_loop(_, _)
read_string_loop(st, string) ==
    LET c == st.current_character IN
    IF c = None
    THEN Read(st, string)
    ELSE IF c = "\""
         THEN Read(advance(st), string)
         ELSE read_string_loop(advance(st), Append(string, c))

\* the first advance passes the opening quote
read_string(st) == read_string_loop(advance(st), <<>>)

(***************************************************************************)
(* Number conversion.  str::parse::<i64> accepts a run of ASCII digits     *)
(* whose value is at most i64::MAX; the value is kept as its canonical     *)
(* numeral (no leading zeros), which names one integer.                    *)
(* str::parse::<f64> accepts digits with at most one '.'; the value is     *)
(* kept as its canonical decimal (no leading zeros, no trailing zeros of   *)
(* the fraction), which names one f64 for the short numerals of the model. *)
(***************************************************************************)
\* i64::MAX = 9223372036854775807
I64_MAX == <<"9", "2", "2", "3", "3", "7", "2", "0", "3", "6",
             "8", "5", "4", "7", "7", "5", "8", "0", "7">>

DigitValue(c) ==
    CASE c = "0" -> 0 [] c = "1" -> 1 [] c = "2" -> 2 [] c = "3" -> 3
      [] c = "4" -> 4 [] c = "5" -> 5 [] c = "6" -> 6 [] c = "7" -> 7
      [] c = "8" -> 8 [] c = "9" -> 9

RECURSIVE StripLeadingZeros(_)
StripLeadingZeros(ds) ==
    IF Len(ds) > 1 /\ Head(ds) = "0" THEN StripLeadingZeros(Tail(ds)) ELSE ds

RECURSIVE StripTrailingZeros(_)
StripTrailingZeros(ds) ==
    IF ds # <<>> /\ ds[Len(ds)] = "0"
    THEN StripTrailingZeros(SubSeq(ds, 1, Len(ds) - 1))
    ELSE ds

\* a <= b for numerals of the same length
RECURSIVE NumeralLeq(_, _)
NumeralLeq(a, b) ==
    \/ a = <<>>
    \/ DigitValue(Head(a)) < DigitValue(Head(b))
    \/ Head(a) = Head(b) /\ NumeralLeq(Tail(a), Tail(b))

FitsI64(ds) ==
    \/ Len(ds) < Len(I64_MAX)
    \/ Len(ds) = Len(I64_MAX) /\ NumeralLeq(ds, I64_MAX)

Ok(value) == [ok |-> TRUE, value |-> value]

Err == [ok |-> FALSE, value |-> <<>>]

parse_i64(val) ==
    IF val = <<>> \/ \E k \in 1..Len(val) : val[k] \notin Digits
    THEN Err
    ELSE LET ds == StripLeadingZeros(val) IN
         IF FitsI64(ds) THEN Ok(ds) ELSE Err

Dots(val) == {k \in 1..Len(val) : val[k] = "."}

parse_f64(val) ==
    IF \/ Cardinality(Dots(val)) > 1
       \/ val \in {<<>>, <<".">>}
       \/ \E k \in 1..Len(val) : val[k] \notin Digits \cup {"."}
    THEN Err
    ELSE LET d == IF Dots(val) = {} THEN Len(val) + 1
                  ELSE CHOOSE k \in 1..Len(val) : val[k] = "."
             int == IF d = 1 THEN <<"0">>
                    ELSE StripLeadingZeros(SubSeq(val, 1, d - 1))
             frac == StripTrailingZeros(SubSeq(val, d + 1, Len(val)))
         IN  Ok(int \o <<".">> \o frac)

(***************************************************************************)
(* Tokenizer::next_token.                                                  *)
(***************************************************************************)
Result(st, r) == [st |-> st, ret |-> r]

\* mutant: the test for '.' is inverted
number_token_swapped(val) ==
    IF Dots(val) = {}
    THEN LET f == parse_f64(val) IN
         IF f.ok THEN Some(Token("Float", f.value)) ELSE Panic
    ELSE LET i == parse_i64(val) IN
         IF i.ok THEN Some(Token("Integer", i.value)) ELSE Panic

\* mutant: an integer conversion that fails gives i64::MAX
number_token_saturating(val) ==
    IF Dots(val) # {}
    THEN LET f == parse_f64(val) IN
         IF f.ok THEN Some(Token("Float", f.value)) ELSE Panic
    ELSE LET i == parse_i64(val) IN
         IF i.ok THEN Some(Token("Integer", i.value))
         ELSE Some(Token("Integer", I64_MAX))

\* mutant: unwrap_or_default in place of unwrap: a failed conversion gives 0
number_token_lenient(val) ==
    IF Dots(val) # {}
    THEN LET f == parse_f64(val) IN
         IF f.ok THEN Some(Token("Float", f.value))
         ELSE Some(Token("Float", <<"0", ".">>))
    ELSE LET i == parse_i64(val) IN
         IF i.ok THEN Some(Token("Integer", i.value))
         ELSE Some(Token("Integer", <<"0">>))

\* lines 81-86: Float if the text contains '.', Integer otherwise; a failed
\* conversion panics in unwrap
number_token(val) ==
    IF Dots(val) # {}
    THEN LET f == parse_f64(val) IN
         IF f.ok THEN Some(Token("Float", f.value)) ELSE Panic
    ELSE LET i == parse_i64(val) IN
         IF i.ok THEN Some(Token("Integer", i.value)) ELSE Panic

\* mutant: the keyword lookup is missing
symbol_token_no_keywords(sym) ==
    IF sym = <<>>
    THEN Panic
    ELSE IF Head(sym) \in binary_operators
         THEN Some(Token("BinaryOp", sym))
         ELSE Some(Token("Symbol", sym))

\* lines 91-97: sym.chars().next().unwrap() panics on an empty text
symbol_token(sym) ==
    IF sym \in keywords
    THEN Some(Token("Keyword", sym))
    ELSE IF sym = <<>>
         THEN Panic
         ELSE IF Head(sym) \in binary_operators
              THEN Some(Token("BinaryOp", sym))
              ELSE Some(Token("Symbol", sym))

\* mutant: the catch-all arm passes the unrecognised character before it
\* returns None
dispatch_skips_unknown(st) ==
    LET c == st.current_character IN
    IF c = None THEN Result(st, NoToken)
    ELSE IF c = "(" THEN Result(advance(st), Some(LeftParenthesis))
    ELSE IF c = ")" THEN Result(advance(st), Some(RightParenthesis))
    ELSE IF c = "\""
         THEN LET r == read_string(st) IN Result(r.st, Some(Token("String", r.out)))
    ELSE IF is_numeric(c)
         THEN LET r == read_number(st) IN Result(r.st, number_token(r.out))
    ELSE IF is_alphabetic(c) \/ c \in binary_operators
         THEN LET r == read_symbol(st) IN Result(r.st, symbol_token(r.out))
    ELSE Result(advance(st), NoToken)

\* mutant: the '(' arm does not advance
dispatch_paren_stays(st) ==
    LET c == st.current_character IN
    IF c = None THEN Result(st, NoToken)
    ELSE IF c = "(" THEN Result(st, Some(LeftParenthesis))
    ELSE IF c = ")" THEN Result(advance(st), Some(RightParenthesis))
    ELSE IF c = "\""
         THEN LET r == read_string(st) IN Result(r.st, Some(Token("String", r.out)))
    ELSE IF is_numeric(c)
         THEN LET r == read_number(st) IN Result(r.st, number_token(r.out))
    ELSE IF is_alphabetic(c) \/ c \in binary_operators
         THEN LET r == read_symbol(st) IN Result(r.st, symbol_token(r.out))
    ELSE Result(st, NoToken)

\* mutant: the end of input is not tested for and falls into the symbol arm
dispatch_eof_as_symbol(st) ==
    LET c == st.current_character IN
    IF c = "(" THEN Result(advance(st), Some(LeftParenthesis))
    ELSE IF c = ")" THEN Result(advance(st), Some(RightParenthesis))
    ELSE IF c = "\""
         THEN LET r == read_string(st) IN Result(r.st, Some(Token("String", r.out)))
    ELSE IF c # None /\ is_numeric(c)
         THEN LET r == read_number(st) IN Result(r.st, number_token(r.out))
    ELSE IF c = None \/ is_alphabetic(c) \/ c \in binary_operators
         THEN LET r == read_symbol(st) IN Result(r.st, symbol_token(r.out))
    ELSE Result(st, NoToken)

\* lines 70-100: the match on the lookahead, after whitespace is skipped
dispatch(st) ==
    LET c == st.current_character IN
    IF c = None THEN Result(st, NoToken)
    ELSE IF c = "(" THEN Result(advance(st), Some(LeftParenthesis))
    ELSE IF c = ")" THEN Result(advance(st), Some(RightParenthesis))
    ELSE IF c = "\""
         THEN LET r == read_string(st) IN Result(r.st, Some(Token("String", r.out)))
    ELSE IF is_numeric(c)
         THEN LET r == read_number(st) IN Result(r.st, number_token(r.out))
    ELSE IF is_alphabetic(c) \/ c \in binary_operators
         THEN LET r == read_symbol(st) IN Result(r.st, symbol_token(r.out))
    ELSE Result(st, NoToken)

next_token(st) == dispatch(eat_whitespace(st))

(***************************************************************************)
(* tokenizer(input): drains a new Tokenizer into a Vec.  The outcome is    *)
(* Ok(tokens), or a panic that unwinds out of the call.                    *)
(***************************************************************************)
Outcome(tag, toks) == [tag |-> tag, tokens |-> toks]

\* mutant: the token is inserted at the front of the Vec
push_front(vec, token) == <<token>> \o vec

\* tokens.push(token)
push(vec, token) == Append(vec, token)

RECURSIVE tokenizer_loop(_, _)
tokenizer_loop(st, toks) ==
    LET r == next_token(st) IN
    IF r.ret.tag = "Some"
    THEN tokenizer_loop(r.st, push(toks, r.ret.token))
    ELSE IF r.ret.tag = "None"
         THEN Outcome("Ok", toks)
         ELSE Outcome("Panic", <<>>)

tokenizer(inp) == tokenizer_loop(new(inp), <<>>)

(***************************************************************************)
(* Input texts.  Every text over Alphabet of at most MaxLen characters,    *)
(* the programs "(op a b)" of tests::test_operators with operands of at    *)
(* most MaxDigits digits, the program of tests::test_area_of_circle, and   *)
(* a few longer texts.                                                     *)
(***************************************************************************)
Alphabet == {"(", ")", "\"", " ", "i", "f", "+", "1", ".", "#"}

Texts == UNION {[1..k -> Alphabet] : k \in 0..MaxLen}

OperandDigits == {"0", "1", "9"}

IntLiterals == UNION {[1..k -> OperandDigits] : k \in 1..MaxDigits}

\* format!("({} 1 2)", operator), with any two operands
OperatorProgram(op, a, b) == <<"(", op, " ">> \o a \o <<" ">> \o b \o <<")">>

OperatorPrograms ==
    {OperatorProgram(op, a, b) : op \in binary_operators,
                                 a \in IntLiterals, b \in IntLiterals}

AreaOfCircle ==
    <<"(", "\n", " ", " ", " ", " ", " ", " ", " ", " ", " ", " ", " ",
      " ", "(", "d", "e", "f", "i", "n", "e", " ", "r", " ", "1", "0", ")",
      "\n", " ", " ", " ", " ", " ", " ", " ", " ", " ", " ", " ", " ",
      "(", "d", "e", "f", "i", "n", "e", " ", "p", "i", " ", "3", ".", "1",
      "4", ")", "\n", " ", " ", " ", " ", " ", " ", " ", " ", " ", " ",
      " ", " ", "(", "*", " ", "p", "i", " ", "(", "*", " ", "r", " ", "r",
      ")", ")", "\n", " ", " ", " ", " ", " ", " ", " ", " ", ")">>

Define ==
    <<"d", "e", "f", "i", "n", "e">>

Abc123 ==
    <<"a", "b", "c", "1", "2", "3">>

AbcPlusDef ==
    <<"a", "b", "c", "+", "d", "e", "f">>

PlusFoo ==
    <<"+", "f", "o", "o">>

MinusFive ==
    <<"-", "5">>

HelloWorld ==
    <<"\"", "h", "e", "l", "l", "o", " ", "w", "o", "r", "l", "d", "\"">>

TwoDots ==
    <<"1", ".", "2", ".", "3">>

DigitsThenLetters ==
    <<"1", "2", "a", "b", "c">>

SuperscriptDigit ==
    <<"1", "SUPERSCRIPT TWO">>

I64Max ==
    <<"9", "2", "2", "3", "3", "7", "2", "0", "3", "6", "8", "5", "4", "7",
      "7", "5", "8", "0", "7">>

I64MaxPlusOne ==
    <<"9", "2", "2", "3", "3", "7", "2", "0", "3", "6", "8", "5", "4", "7",
      "7", "5", "8", "0", "8">>

\* 2^64 + 1
TwoPow64PlusOne ==
    <<"1", "8", "4", "4", "6", "7", "4", "4", "0", "7", "3", "7", "0", "9",
      "5", "5", "1", "6", "1", "7">>

\* i64::MAX with leading zeros
PaddedI64Max ==
    <<"0", "0", "9", "2", "2", "3", "3", "7", "2", "0", "3", "6", "8", "5",
      "4", "7", "7", "5", "8", "0", "7">>

IfForm ==
    <<"(", "i", "f", " ", "+", "x", " ", "1", ".", "5", "0", " ", "\"", "a",
      "(", "b", "\"", ")">>

\* whitespace only
Blank ==
    <<" ", "\n", "\t", "\r", " ">>

Samples == {AreaOfCircle, Define, Abc123, AbcPlusDef, PlusFoo, MinusFive, HelloWorld,
            TwoDots, DigitsThenLetters, SuperscriptDigit, I64Max, I64MaxPlusOne, IfForm, Blank,
            TwoPow64PlusOne, PaddedI64Max}

Inputs == Texts \cup OperatorPrograms \cup Samples

(***************************************************************************)
(* The program: tokenizer(text) builds a Tokenizer and calls next_token    *)
(* until it returns None, pushing each token.  spans records, for each     *)
(* token pushed, the first and last position of text that the call read    *)
(* for it (whitespace skipped before it excluded).  After tokenizer has    *)
(* returned, a client may call next_token again on the exhausted           *)
(* Tokenizer.                                                              *)
(***************************************************************************)
Self == State(input, current_character)

\* the position in text of the lookahead of st; Len(text) + 1 at the end
Pos(st) ==
    IF st.current_character = None
    THEN Len(text) + 1
    ELSE Len(text) - Len(st.input)

NotCalled == [tag |-> "NotCalled", token |-> Token("", <<>>)]

Init ==
    /\ text \in Inputs
    /\ input = new(text).input
    /\ current_character = new(text).current_character
    /\ tokens = <<>>
    /\ spans = <<>>
    /\ ret = NotCalled
    /\ pc = "scanning"
    /\ extra = 0

\* while let Some(token) = tokenizer.next_token() { tokens.push(token); }
Push ==
    /\ pc = "scanning"
    /\ LET r == next_token(Self) IN
       /\ r.ret.tag = "Some"
       /\ input' = r.st.input
       /\ current_character' = r.st.current_character
       /\ tokens' = push(tokens, r.ret.token)
       /\ spans' = Append(spans, <<Pos(eat_whitespace(Self)), Pos(r.st) - 1>>)
       /\ ret' = r.ret
    /\ UNCHANGED <<text, pc, extra>>

\* next_token returns None: the loop ends and tokenizer returns Ok(tokens)
Return ==
    /\ pc = "scanning"
    /\ LET r == next_token(Self) IN
       /\ r.ret.tag = "None"
       /\ input' = r.st.input
       /\ current_character' = r.st.current_character
       /\ ret' = r.ret
    /\ pc' = "returned"
    /\ UNCHANGED <<text, tokens, spans, extra>>

\* an unwrap inside next_token fails: the panic unwinds out of tokenizer
Unwind ==
    /\ pc = "scanning"
    /\ LET r == next_token(Self) IN
       /\ r.ret.tag = "Panic"
       /\ input' = r.st.input
       /\ current_character' = r.st.current_character
       /\ spans' = Append(spans, <<Pos(eat_whitespace(Self)), Pos(r.st) - 1>>)
       /\ ret' = r.ret
    /\ pc' = "panicked"
    /\ UNCHANGED <<text, tokens, extra>>

\* a further call of next_token on a Tokenizer that has returned None
CallAgain ==
    /\ pc = "returned"
    /\ extra < MaxExtraCalls
    /\ LET r == next_token(Self) IN
       /\ input' = r.st.input
       /\ current_character' = r.st.current_character
       /\ ret' = r.ret
    /\ extra' = extra + 1
    /\ UNCHANGED <<text, tokens, spans, pc>>

Next == Push \/ Return \/ Unwind \/ CallAgain

Spec == Init /\ [][Next]_vars

\* the inputs on which termination is checked: short texts, the samples
\* whose tokens are short, and the programs "(op a b)" with one-digit
\* operands
FairInputs ==
    UNION {[1..k -> Alphabet] : k \in 0..MaxFairLen}
        \cup {Define, Abc123, PlusFoo, MinusFive, TwoDots, DigitsThenLetters,
              SuperscriptDigit, IfForm, Blank}
        \cup {OperatorProgram(op, <<a>>, <<b>>) :
                 op \in binary_operators, a \in OperandDigits, b \in OperandDigits}

\* the code is one sequential loop: a call that can be made is made
FairInit == Init /\ text \in FairInputs

FairSpec == FairInit /\ [][Next]_vars /\ WF_vars(Next)

(***************************************************************************)
(* Claims.                                                                 *)
(***************************************************************************)
\* the Tokenizer as it stands when its lookahead is the character at p
StateAt(p) ==
    IF p > Len(text)
    THEN State(<<>>, None)
    ELSE State(SubSeq(text, p + 1, Len(text)), text[p])

\* C1: once next_token has returned None, every later call returns None
\* and leaves the remaining input and the lookahead unchanged.
C1_ExhaustionIsTerminal ==
    [][ret.tag = "None" =>
          /\ ret'.tag = "None"
          /\ input' = input
          /\ current_character' = current_character]_vars

C1_Witness ==
    /\ ret.tag = "None"
    /\ extra = 2
    /\ tokens # <<>>
    /\ current_character = "#"

SpansOrdered ==
    \A k \in 1..Len(tokens) :
        /\ spans[k][1] <= spans[k][2]
        /\ k > 1 => spans[k - 1][2] < spans[k][1]

ProducedInOrder ==
    /\ Len(spans) = Len(tokens) + (IF pc = "panicked" THEN 1 ELSE 0)
    /\ \A k \in 1..Len(tokens) :
           next_token(StateAt(spans[k][1])).ret = Some(tokens[k])

\* C2: the read position never decreases, the span of each token lies
\* entirely before the span of the next and before the read position, and
\* the k-th element of the Vec is the token read at the k-th span.
C2_LeftToRight ==
    /\ [](/\ SpansOrdered
          /\ ProducedInOrder
          /\ tokens # <<>> => spans[Len(tokens)][2] < Pos(Self))
    /\ [][Pos(Self)' >= Pos(Self)]_vars

C2_Witness ==
    /\ pc = "returned"
    /\ Len(tokens) >= 3
    /\ tokens[1] # tokens[2]

WhitespaceRuns == UNION {[1..k -> {" ", "\n"}] : k \in 1..MaxRun}

\* t with the run w inserted after its first p characters
Insert(t, p, w) == SubSeq(t, 1, p) \o w \o SubSeq(t, p + 1, Len(t))

\* the places of text that are not strictly inside a span read by a call:
\* before the first token, between two tokens, after the last
Boundaries ==
    {p \in 0..Len(text) :
        ~\E k \in 1..Len(spans) : spans[k][1] <= p /\ p < spans[k][2]}

\* the outcome of tokenizer(text), once the run has ended
Finished == pc \in {"returned", "panicked"} /\ extra = 0

Outcome_of_run ==
    IF pc = "returned" THEN Outcome("Ok", tokens) ELSE Outcome("Panic", <<>>)

\* the k-th token is a string literal whose closing quote is missing
Unterminated(k) ==
    /\ tokens[k].type = "String"
    /\ \/ spans[k][1] = spans[k][2]
       \/ text[spans[k][2]] # "\""

\* C3 as claimed: a whitespace run inserted at any boundary between tokens
\* (before the first, between two, after the last) leaves the outcome of
\* tokenizer unchanged.
C3_AsClaimed ==
    Finished =>
        \A p \in Boundaries : \A w \in WhitespaceRuns :
            tokenizer(Insert(text, p, w)) = Outcome_of_run

\* C3, amended: a whitespace run inserted at a boundary between tokens
\* leaves the outcome of tokenizer unchanged, except after a last token
\* that is a string literal without its closing quote.
C3_WhitespaceInvariance ==
    Finished =>
        \A p \in Boundaries : \A w \in WhitespaceRuns :
            \/ /\ p = Len(text)
               /\ tokens # <<>>
               /\ pc = "returned"
               /\ Unterminated(Len(tokens))
               /\ spans[Len(tokens)][2] = Len(text)
            \/ tokenizer(Insert(text, p, w)) = Outcome_of_run

C3_Witness ==
    /\ Finished
    /\ pc = "returned"
    /\ Len(tokens) >= 3
    /\ Cardinality(Boundaries) >= 4
    /\ \E k \in 1..Len(tokens) - 1 : spans[k][2] + 1 = spans[k + 1][1]

\* the number of characters c in the text t
Count(t, c) == Cardinality({k \in 1..Len(t) : t[k] = c})

\* the number of tokens of the given type
CountTokens(type) == Cardinality({k \in 1..Len(tokens) : tokens[k].type = type})

\* the number of characters c inside the String tokens
RECURSIVE CountInStrings(_, _)
CountInStrings(k, c) ==
    IF k = 0 THEN 0
    ELSE CountInStrings(k - 1, c)
         + (IF tokens[k].type = "String" THEN Count(tokens[k].value, c) ELSE 0)

\* the characters of text that have been read: those before the lookahead
Consumed == SubSeq(text, 1, Pos(Self) - 1)

\* C4 as claimed: the output of tokenizer has as many LeftParenthesis
\* tokens as the input has '(' and as many RightParenthesis tokens as the
\* input has ')'.
C4_AsClaimed ==
    pc = "returned" =>
        /\ CountTokens("LeftParenthesis") = Count(text, "(")
        /\ CountTokens("RightParenthesis") = Count(text, ")")

\* C4, amended: the number of LeftParenthesis (RightParenthesis) tokens is
\* the number of '(' (')') characters read so far less those inside String
\* tokens; no parenthesis is duplicated.
C4_ParenthesisConservation ==
    /\ CountTokens("LeftParenthesis")
         = Count(Consumed, "(") - CountInStrings(Len(tokens), "(")
    /\ CountTokens("RightParenthesis")
         = Count(Consumed, ")") - CountInStrings(Len(tokens), ")")
    /\ CountTokens("LeftParenthesis") <= Count(text, "(")
    /\ CountTokens("RightParenthesis") <= Count(text, ")")

C4_Witness ==
    /\ pc = "returned"
    /\ CountTokens("LeftParenthesis") = 1
    /\ CountTokens("RightParenthesis") = 1
    /\ CountInStrings(Len(tokens), "(") = 1
    /\ Count(text, "(") = 2

\* C5 as claimed: tokenizer never aborts; every run ends in Ok.
C5_AlwaysSucceeds == pc # "panicked"

\* a token that a symbol read produces
SymbolRead(k) == tokens[k].type \in {"Symbol", "Keyword", "BinaryOp"}

Delimiter(c) == c \in {" ", "\t", "\n", "\r", "(", ")"}

\* the state is the one a call that returned the k-th token has left
JustRead(k) == k = Len(tokens) /\ ret.tag = "Some" /\ pc = "scanning"

\* the lookahead is the character at position p, the rest of text after it
LookaheadAt(p) ==
    /\ current_character = (IF p > Len(text) THEN None ELSE text[p])
    /\ input = SubSeq(text, p + 1, Len(text))

\* C6: a token started at an alphabetic or operator character is a symbol
\* read; its text is the run from its start up to the next whitespace,
\* '(' or ')' or the end of input, and that terminator is the lookahead.
C6_MaximalMunch ==
    \A k \in 1..Len(tokens) :
        LET s == spans[k][1]
            e == spans[k][2]
        IN  /\ SymbolRead(k) <=>
                   (text[s] \in Letters \/ text[s] \in {"+", "-", "*", "/"})
            /\ SymbolRead(k) =>
                   /\ tokens[k].value = SubSeq(text, s, e)
                   /\ \A j \in s..e : ~Delimiter(text[j])
                   /\ e = Len(text) \/ Delimiter(text[e + 1])
                   /\ JustRead(k) => LookaheadAt(e + 1)

C6_Witness ==
    /\ tokens # <<>>
    /\ JustRead(Len(tokens))
    /\ tokens[Len(tokens)] = Token("Symbol", <<"i", "1", "+", ".">>)

\* C7: a symbol-read text t gives Keyword(t) iff t is "define" or "if",
\* otherwise BinaryOp(t) iff t begins with one of + - * /, otherwise
\* Symbol(t); the payload is the whole text.
C7_Classification ==
    \A k \in 1..Len(tokens) :
        LET t == SubSeq(text, spans[k][1], spans[k][2]) IN
        SymbolRead(k) =>
            /\ tokens[k].value = t
            /\ tokens[k].type =
                   IF t \in {Define, <<"i", "f">>} THEN "Keyword"
                   ELSE IF t[1] \in {"+", "-", "*", "/"} THEN "BinaryOp"
                   ELSE "Symbol"

C7_Witness ==
    /\ pc = "returned"
    /\ \E j, k \in 1..Len(tokens) :
           /\ tokens[j] = Token("Keyword", <<"i", "f">>)
           /\ tokens[k] = Token("BinaryOp", <<"+", "x">>)

\* the number that a run of decimal digits denotes
RECURSIVE Value(_)
Value(ds) ==
    IF ds = <<>> THEN 0
    ELSE 10 * Value(SubSeq(ds, 1, Len(ds) - 1)) + DigitValue(ds[Len(ds)])

\* the decimal numeral of the number n, without leading zeros
RECURSIVE Numeral(_)
Numeral(n) ==
    LET d == CHOOSE c \in Digits : DigitValue(c) = n % 10 IN
    IF n < 10 THEN <<d>> ELSE Append(Numeral(n \div 10), d)

IsPrefix(a, b) == Len(a) <= Len(b) /\ a = SubSeq(b, 1, Len(a))

\* [LeftParenthesis, BinaryOp(op), Integer(a), Integer(b), RightParenthesis]
Expected(op, a, b) ==
    <<LeftParenthesis, Token("BinaryOp", <<op>>),
      Token("Integer", Numeral(Value(a))), Token("Integer", Numeral(Value(b))),
      RightParenthesis>>

\* C8: on "(op a b)", with op one of + - * / and a, b runs of decimal
\* digits, tokenizer returns exactly [LeftParenthesis, BinaryOp(op),
\* Integer(a), Integer(b), RightParenthesis].
C8_OperatorPrograms ==
    text \in OperatorPrograms =>
        LET sp == CHOOSE k \in 4..Len(text) : text[k] = " "
            want == Expected(text[2], SubSeq(text, 4, sp - 1),
                             SubSeq(text, sp + 1, Len(text) - 1))
        IN  /\ pc # "panicked"
            /\ IsPrefix(tokens, want)
            /\ pc = "returned" => tokens = want

C8_Witness ==
    /\ pc = "returned"
    /\ text = OperatorProgram("/", <<"0", "9">>, <<"1", "0">>)
    /\ tokens[3] = Token("Integer", <<"9">>)
    /\ tokens[4] = Token("Integer", <<"1", "0">>)

\* the positions of the double quotes of text after position s
QuotesAfter(s) == {j \in s + 1..Len(text) : text[j] = "\""}

\* C9: a token started at a double quote is a String; when a further
\* double quote follows, its contents are the characters strictly between
\* the two, verbatim, the closing quote is consumed and the lookahead is
\* the character after it.
C9_StringLiterals ==
    \A k \in 1..Len(tokens) :
        LET s == spans[k][1]
            e == spans[k][2]
        IN  /\ tokens[k].type = "String" <=> text[s] = "\""
            /\ (tokens[k].type = "String" /\ QuotesAfter(s) # {}) =>
                   LET q == CHOOSE j \in QuotesAfter(s) :
                                \A i \in QuotesAfter(s) : j <= i
                   IN  /\ tokens[k].value = SubSeq(text, s + 1, q - 1)
                       /\ e = q
                       /\ JustRead(k) => LookaheadAt(q + 1)
                       /\ k < Len(spans) => spans[k + 1][1] > q

C9_Witness ==
    /\ pc = "returned"
    /\ text = HelloWorld
    /\ tokens = <<Token("String",
                        <<"h", "e", "l", "l", "o", " ", "w", "o", "r", "l", "d">>)>>

AllWhitespace(t) == \A k \in 1..Len(t) : t[k] \in {" ", "\t", "\n", "\r"}

\* C10: on the empty text, and on a text of whitespace only, the first
\* next_token call returns None and tokenizer returns Ok of an empty Vec.
C10_EmptyInput ==
    AllWhitespace(text) =>
        /\ pc # "panicked"
        /\ tokens = <<>>
        /\ ret.tag \in {"NotCalled", "None"}
        /\ pc = "scanning" => next_token(Self).ret.tag = "None"

C10_Witness ==
    /\ pc = "returned"
    /\ extra = 0
    /\ text = Blank
    /\ tokens = <<>>
    /\ ret.tag = "None"

\* the position of the first character at or after the lookahead that is
\* not whitespace: where the next call starts its token; Len(text) + 1
\* when there is none
FirstNonBlank ==
    LET rest == {p \in Pos(Self)..Len(text) : text[p] \notin {" ", "\t", "\n", "\r"}}
    IN  IF rest = {} THEN Len(text) + 1
        ELSE CHOOSE p \in rest : \A q \in rest : p <= q

\* a character that starts no token
Unrecognised(c) ==
    c \notin {"(", ")", "\"", "+", "-", "*", "/", "SUPERSCRIPT TWO"}
             \cup Digits \cup Letters

\* C11: when the first character after the whitespace starts no token,
\* next_token returns None and leaves that character as the lookahead, and
\* tokenizer returns Ok with the tokens scanned before it; nothing after
\* it is read.
C11_UnrecognisedStops ==
    [][(/\ pc = "scanning"
        /\ FirstNonBlank <= Len(text)
        /\ Unrecognised(text[FirstNonBlank]))
       => /\ pc' = "returned"
          /\ ret'.tag = "None"
          /\ tokens' = tokens
          /\ current_character' = text[FirstNonBlank]
          /\ input' = SubSeq(text, FirstNonBlank + 1, Len(text))]_vars

C11_Witness ==
    /\ pc = "returned"
    /\ tokens = <<LeftParenthesis>>
    /\ current_character = "#"
    /\ input = <<")", ")">>

\* C12: a string literal whose closing quote is missing gives a String
\* of every character after the opening quote up to the end of input, no
\* panic, and the call after it returns None.
C12_UnterminatedString ==
    /\ [][(/\ pc = "scanning"
           /\ FirstNonBlank <= Len(text)
           /\ text[FirstNonBlank] = "\""
           /\ QuotesAfter(FirstNonBlank) = {})
          => /\ pc' = "scanning"
             /\ tokens' = Append(tokens,
                    Token("String", SubSeq(text, FirstNonBlank + 1, Len(text))))
             /\ current_character' = None
             /\ input' = <<>>]_vars
    /\ [][(/\ pc = "scanning"
           /\ tokens # <<>>
           /\ Unterminated(Len(tokens)))
          => /\ pc' = "returned"
             /\ ret'.tag = "None"
             /\ tokens' = tokens]_vars

C12_Witness ==
    /\ pc = "returned"
    /\ text = <<"(", "\"", "1", " ">>
    /\ tokens = <<LeftParenthesis, Token("String", <<"1", " ">>)>>

\* the last position of the maximal run of decimal digits and '.' that
\* starts at position s
DigitRunEnd(s) ==
    CHOOSE e \in s..Len(text) :
        /\ \A j \in s..e : text[j] \in Digits \cup {"."}
        /\ e = Len(text) \/ text[e + 1] \notin Digits \cup {"."}

HasDot(s, e) == \E j \in s..e : text[j] = "."

\* C13 as claimed: a call that starts at a decimal digit reads exactly the
\* maximal run of digits and '.', leaves the character after the run as
\* the lookahead, and returns a Float if the run has a '.', an Integer
\* otherwise; every number token starts at a digit.
C13_AsClaimed ==
    /\ [](\A k \in 1..Len(tokens) :
              tokens[k].type \in {"Integer", "Float"}
                  => text[spans[k][1]] \in Digits)
    /\ [][(/\ pc = "scanning"
           /\ FirstNonBlank <= Len(text)
           /\ text[FirstNonBlank] \in Digits)
          => LET e == DigitRunEnd(FirstNonBlank) IN
             /\ Len(tokens') = Len(tokens) + 1
             /\ tokens'[Len(tokens')].type =
                    IF HasDot(FirstNonBlank, e) THEN "Float" ELSE "Integer"
             /\ current_character' = (IF e = Len(text) THEN None ELSE text[e + 1])
             /\ input' = SubSeq(text, e + 2, Len(text))]_vars

\* C14: a run of digits and '.' that starts at a digit and holds two or
\* more '.' is read as one text, the conversion fails (the call panics),
\* and no token is pushed for it or for a part of it.
C14_MalformedNumber ==
    [][(/\ pc = "scanning"
        /\ FirstNonBlank <= Len(text)
        /\ text[FirstNonBlank] \in Digits
        /\ Cardinality({j \in FirstNonBlank..DigitRunEnd(FirstNonBlank) :
                            text[j] = "."}) >= 2)
       => /\ pc' = "panicked"
          /\ ret'.tag = "Panic"
          /\ tokens' = tokens
          /\ spans'[Len(spans')][1] = FirstNonBlank
          /\ spans'[Len(spans')][2] >= DigitRunEnd(FirstNonBlank)
          /\ Pos(Self)' > DigitRunEnd(FirstNonBlank)]_vars

C14_Witness ==
    /\ pc = "panicked"
    /\ text = TwoDots
    /\ tokens = <<>>
    /\ spans = <<<<1, 5>>>>
    /\ current_character = None

\* C15: after construction and after every call the lookahead is the
\* character at the read position, with the rest of text behind it in the
\* iterator, None exactly at the end of text; the read position is past
\* every token pushed, and past nothing but whitespace after the last one.
C15_LookaheadInvariant ==
    /\ ret = NotCalled => LookaheadAt(1)
    /\ \E p \in 1..Len(text) + 1 :
           /\ LookaheadAt(p)
           /\ current_character = None <=> p = Len(text) + 1
           /\ \A k \in 1..Len(tokens) : spans[k][2] < p
           /\ pc # "panicked" =>
                  \A j \in 1..p - 1 :
                      \/ \E k \in 1..Len(tokens) : spans[k][1] <= j /\ j <= spans[k][2]
                      \/ text[j] \in {" ", "\t", "\n", "\r"}

C15_Witness ==
    /\ pc = "scanning"
    /\ Len(tokens) = 2
    /\ current_character = ")"
    /\ input = <<" ">>

\* C16: a call that returns a token moves the read position forward, the
\* Vec never holds more tokens than text has characters, and the loop of
\* tokenizer ends.
C16_Progress ==
    /\ [](Len(tokens) <= Len(text) /\ Len(tokens) < Pos(Self))
    /\ [][ret'.tag = "Some" => Pos(Self)' > Pos(Self)]_vars
    /\ <>(pc # "scanning")

C16_Witness ==
    /\ pc = "returned"
    /\ text = IfForm
    /\ Len(tokens) = 6
    /\ Pos(Self) = Len(text) + 1

\* C17: a symbol read never returns the empty text, so the unwrap of its
\* first character never panics (a panic comes from a number read only),
\* and every Symbol, Keyword and BinaryOp payload is a non-empty text
\* without whitespace, '(' or ')'.
C17_SymbolNeverEmpty ==
    /\ \A k \in 1..Len(tokens) :
           SymbolRead(k) =>
               /\ tokens[k].value # <<>>
               /\ \A j \in 1..Len(tokens[k].value) : ~Delimiter(tokens[k].value[j])
    /\ pc = "panicked" =>
           LET s == spans[Len(spans)][1] IN
           /\ s <= Len(text)
           /\ text[s] \in Digits \cup {"SUPERSCRIPT TWO"}

C17_Witness ==
    /\ pc = "returned"
    /\ text = AbcPlusDef
    /\ tokens = <<Token("Symbol", AbcPlusDef)>>

\* the digit run ds without its leading zeros
Canon(ds) ==
    LET nz == {i \in 1..Len(ds) : ds[i] # "0"} IN
    IF nz = {} THEN <<"0">>
    ELSE SubSeq(ds, CHOOSE i \in nz : \A j \in nz : i <= j, Len(ds))

\* the numeral c, without leading zeros, denotes more than i64::MAX
ExceedsI64(c) ==
    \/ Len(c) > Len(I64Max)
    \/ /\ Len(c) = Len(I64Max)
       /\ \E i \in 1..Len(c) :
              /\ \A j \in 1..i - 1 : c[j] = I64Max[j]
              /\ DigitValue(c[i]) > DigitValue(I64Max[i])

\* C18: an Integer token carries the decimal value of its digit run, which
\* is at most i64::MAX; a digit run without '.' whose value is above
\* i64::MAX makes the conversion fail, and no token is pushed for it.
C18_NoWrappedInteger ==
    /\ [](\A k \in 1..Len(tokens) :
              tokens[k].type = "Integer" =>
                  LET run == SubSeq(text, spans[k][1], spans[k][2]) IN
                  /\ \A j \in 1..Len(run) : run[j] \in Digits
                  /\ tokens[k].value = Canon(run)
                  /\ ~ExceedsI64(Canon(run))
                  /\ Len(run) <= 9 => tokens[k].value = Numeral(Value(run)))
    /\ [][(/\ pc = "scanning"
           /\ FirstNonBlank <= Len(text)
           /\ text[FirstNonBlank] \in Digits
           /\ ~HasDot(FirstNonBlank, DigitRunEnd(FirstNonBlank))
           /\ ExceedsI64(Canon(SubSeq(text, FirstNonBlank,
                                      DigitRunEnd(FirstNonBlank)))))
          => /\ pc' = "panicked"
             /\ ret'.tag = "Panic"
             /\ tokens' = tokens]_vars

C18_Witness ==
    /\ pc = "panicked"
    /\ text = TwoPow64PlusOne
    /\ tokens = <<>>

====
